---------------------------- MODULE Spec2Model ----------------------------
(***************************************************************************)
(* The argument parser and dispatcher of the ip command (run, usage, main) *)
(* and the prefix matcher and grammar productions it calls.                *)
(*                                                                         *)
(* A token is a Go string, modelled as a sequence of one-character         *)
(* strings so that prefixes are computed and not assumed.                  *)
(***************************************************************************)
EXTENDS Integers, Sequences, FiniteSets, TLC

VARIABLES
    inet4,      \* flag -4
    inet6,      \* flag -6
    arg,        \* the token list (flag.Args())
    cursor,     \* next token pointer, 0-based as in the source
    whatIWant,  \* the expectation set, a []string
    family,     \* "ALL", "V4", "V6"
    pc,         \* where the process is
    c,          \* run's local c, the matcher's answer
    prod,       \* the production in control, "none" outside one
    action,     \* the sub-keyword the production resolved
    err,        \* run's local err
    cmd,        \* the Command a production assembled
    fault,      \* a panic in flight, "none" when there is none
    result,     \* what the invocation ended with
    mtoken,     \* matcher applied alone: the token
    mcands,     \* matcher applied alone: the candidates
    mresult,    \* matcher applied alone: the answer
    tpc,        \* tftp: where RunInteractive is
    stdin,      \* tftp: the lines not yet scanned, each a list of words
    eof,        \* tftp: the last Scan found the stream exhausted
    input,      \* tftp: the words readInputInteractive returned
    cfg,        \* tftp: the clientCfg
    tfault,     \* tftp: a panic, "none" when there is none
    puts,       \* tftp: the uploads of the command just executed
    terr        \* tftp: the error of the command just executed

vars == <<inet4, inet6, arg, cursor, whatIWant, family, pc, c, prod, action,
          err, cmd, fault, result, mtoken, mcands, mresult,
          tpc, stdin, eof, input, cfg, tfault, puts, terr>>

runVars == <<inet4, inet6, arg, cursor, whatIWant, family, c, prod, action,
             err, cmd, fault, result>>

matchVars == <<mtoken, mcands, mresult>>

tftpVars == <<tpc, stdin, eof, input, cfg, tfault, puts, terr>>

---------------------------------------------------------------------------
(* Bounds *)

\* most tokens on a command line
MaxArgs == 3

\* most candidates handed to the matcher when applied alone
MaxCands == 3

---------------------------------------------------------------------------
(* Keywords *)

KwAddress == <<"a","d","d","r","e","s","s">>
KwRoute == <<"r","o","u","t","e">>
KwLink == <<"l","i","n","k">>
KwMonitor == <<"m","o","n","i","t","o","r">>
KwNeigh == <<"n","e","i","g","h">>
KwTunnel == <<"t","u","n","n","e","l">>
KwTcpUMetrics == <<"t","c","p","_","m","e","t","r","i","c","s">>
KwTcpMetrics == <<"t","c","p","m","e","t","r","i","c","s">>
KwXfrm == <<"x","f","r","m">>

KwAdd == <<"a","d","d">>
KwDelete == <<"d","e","l","e","t","e">>
KwShow == <<"s","h","o","w">>
KwFlush == <<"f","l","u","s","h">>
KwSet == <<"s","e","t">>

\* a faulty variant: neigh left out of the list
TopLevel_NoNeigh ==
    <<KwAddress, KwRoute, KwLink, KwMonitor, KwTunnel,
      KwTcpUMetrics, KwTcpMetrics, KwXfrm>>

\* the top-level expectation set, in the source's order
TopLevel ==
    <<KwAddress, KwRoute, KwLink, KwMonitor, KwNeigh, KwTunnel,
      KwTcpUMetrics, KwTcpMetrics, KwXfrm>>

Range(s) == {s[i] : i \in DOMAIN s}

\* Go's s[lo:hi] on a slice, 0-based, for 0 <= lo <= hi <= len(s)
Slice(s, lo, hi) == SubSeq(s, lo + 1, hi)

\* strings.HasPrefix(k, t)
HasPrefix(k, t) == Len(t) <= Len(k) /\ SubSeq(k, 1, Len(t)) = t

\* what the matcher answers when nothing is selected
NoMatch == <<>>

---------------------------------------------------------------------------
(* Prefix matcher *)

\* findPrefix(token, candidates): an exact match wins; otherwise a non-empty
\* prefix of exactly one candidate selects it; otherwise NoMatch.
findPrefix(token, candidates) ==
    LET cands == Range(candidates)
        hits == {k \in cands : token # <<>> /\ HasPrefix(k, token)}
    IN  IF token \in cands THEN token
        ELSE IF Cardinality(hits) = 1 THEN CHOOSE k \in hits : TRUE
        ELSE NoMatch

---------------------------------------------------------------------------
(* run: set-up, dispatch, recovery, return *)

\* a faulty variant: the two tests in the other order
FamilyOf_V4First(i4, i6) ==
    IF i4 THEN "V4" ELSE IF i6 THEN "V6" ELSE "ALL"

\* the family run computes from the two flags
FamilyOf(i4, i6) ==
    IF i6 THEN "V6" ELSE IF i4 THEN "V4" ELSE "ALL"

\* a faulty variant: the cases bound in the order of the expectation set, where route
\* comes before link
ProductionOf_ListOrder(k) ==
    IF k = KwAddress THEN "address"
    ELSE IF k = KwRoute THEN "link"
    ELSE IF k = KwLink THEN "route"
    ELSE IF k = KwNeigh THEN "neigh"
    ELSE IF k = KwMonitor THEN "monitor"
    ELSE IF k = KwTunnel THEN "tunnel"
    ELSE IF k = KwTcpMetrics \/ k = KwTcpUMetrics THEN "tcpMetrics"
    ELSE IF k = KwXfrm THEN "xfrm"
    ELSE "none"

\* a faulty variant: the empty answer shares the first case
ProductionOf_EmptyCase(k) ==
    IF k = KwAddress \/ k = <<>> THEN "address"
    ELSE IF k = KwLink THEN "link"
    ELSE IF k = KwRoute THEN "route"
    ELSE IF k = KwNeigh THEN "neigh"
    ELSE IF k = KwMonitor THEN "monitor"
    ELSE IF k = KwTunnel THEN "tunnel"
    ELSE IF k = KwTcpMetrics \/ k = KwTcpUMetrics THEN "tcpMetrics"
    ELSE IF k = KwXfrm THEN "xfrm"
    ELSE "none"

\* the switch of run: the production bound to a matcher answer
ProductionOf(k) ==
    IF k = KwAddress THEN "address"
    ELSE IF k = KwLink THEN "link"
    ELSE IF k = KwRoute THEN "route"
    ELSE IF k = KwNeigh THEN "neigh"
    ELSE IF k = KwMonitor THEN "monitor"
    ELSE IF k = KwTunnel THEN "tunnel"
    ELSE IF k = KwTcpMetrics \/ k = KwTcpUMetrics THEN "tcpMetrics"
    ELSE IF k = KwXfrm THEN "xfrm"
    ELSE "none"

Nil == [kind |-> "nil"]

NoCmd == [kind |-> "none"]

NoResult == [kind |-> "none"]

\* the fault of reading arg[i], "none" when i is in range
IndexFault(i) ==
    IF i >= Len(arg) THEN "index out of range" ELSE "none"

\* the fault usage() raises at the present cursor: arg[0:cursor] is
\* evaluated first, then arg[cursor:], then arg[cursor]
usageFault ==
    IF cursor > Len(arg) THEN "slice bounds out of range"
    ELSE IndexFault(cursor)

\* a faulty variant: the consumed part cut one token too far
usage_OffByOne ==
    [kind |-> "usage",
     consumed |-> Slice(arg, 0, cursor + 1),
     remaining |-> Slice(arg, cursor, Len(arg)),
     offending |-> arg[cursor + 1],
     expected |-> whatIWant]

\* usage(): the error it returns when it raises no fault
usage ==
    [kind |-> "usage",
     consumed |-> Slice(arg, 0, cursor),
     remaining |-> Slice(arg, cursor, Len(arg)),
     offending |-> arg[cursor + 1],
     expected |-> whatIWant]

\* a faulty variant: the token as typed in place of the matcher's answer
Prefixed_Typed(k, e) == [kind |-> "error", prefix |-> arg[1], err |-> e]

\* Errorf("%v: %v", c, err)
Prefixed(k, e) == [kind |-> "error", prefix |-> k, err |-> e]

\* a faulty variant: the argument number counted from one
Recovered_OneBased(f) ==
    [kind |-> "fatal", args |-> arg, cursor |-> cursor + 1,
     expected |-> whatIWant]

\* the text the deferred function of run hands to log.Fatalf
Recovered(f) ==
    IF f \in {"index out of range", "slice bounds out of range"}
    THEN [kind |-> "fatal", args |-> arg, cursor |-> cursor,
          expected |-> whatIWant]
    ELSE [kind |-> "fatal", args |-> <<>>, cursor |-> 0, expected |-> <<>>]

\* main: flag.Parse() and arg = flag.Args(), then the call of run
Main(flags, args) ==
    /\ pc = "idle"
    /\ inet4' = ("-4" \in Range(flags))
    /\ inet6' = ("-6" \in Range(flags))
    /\ arg' = args
    /\ result' = NoResult
    /\ pc' = "run"
    /\ UNCHANGED <<cursor, whatIWant, family, c, prod, action, err, cmd, fault>>
    /\ UNCHANGED matchVars
    /\ UNCHANGED tftpVars

\* a faulty variant: the expectation set is not installed
RunInit_NoExpect ==
    /\ pc = "run"
    /\ family' = FamilyOf(inet4, inet6)
    /\ cursor' = 0
    /\ err' = Nil
    /\ pc' = "dispatch"
    /\ UNCHANGED <<inet4, inet6, arg, whatIWant, c, prod, action, cmd, fault, result>>
    /\ UNCHANGED matchVars
    /\ UNCHANGED tftpVars

\* a faulty variant: the cursor is not reset
RunInit_NoCursorReset ==
    /\ pc = "run"
    /\ family' = FamilyOf(inet4, inet6)
    /\ whatIWant' = TopLevel
    /\ err' = Nil
    /\ pc' = "dispatch"
    /\ UNCHANGED <<inet4, inet6, arg, cursor, c, prod, action, cmd, fault, result>>
    /\ UNCHANGED matchVars
    /\ UNCHANGED tftpVars

\* run, up to the deferred function's registration
RunInit ==
    /\ pc = "run"
    /\ family' = FamilyOf(inet4, inet6)
    /\ whatIWant' = TopLevel
    /\ cursor' = 0
    /\ err' = Nil
    /\ pc' = "dispatch"
    /\ UNCHANGED <<inet4, inet6, arg, c, prod, action, cmd, fault, result>>
    /\ UNCHANGED matchVars
    /\ UNCHANGED tftpVars

\* a faulty variant: run advances the cursor itself before it calls the
\* production
Dispatch_Advances ==
    /\ pc = "dispatch"
    /\ IF IndexFault(cursor) # "none"
       THEN /\ fault' = IndexFault(cursor)
            /\ pc' = "panic"
            /\ UNCHANGED <<c, prod, err, cursor>>
       ELSE LET k == findPrefix(arg[cursor + 1], whatIWant)
            IN  /\ c' = k
                /\ IF ProductionOf(k) # "none"
                   THEN /\ prod' = ProductionOf(k)
                        /\ cursor' = cursor + 1
                        /\ pc' = "production"
                        /\ UNCHANGED <<err, fault>>
                   ELSE /\ err' = usage
                        /\ pc' = "return"
                        /\ UNCHANGED <<prod, fault, cursor>>
    /\ UNCHANGED <<inet4, inet6, arg, whatIWant, family, action, cmd, result>>
    /\ UNCHANGED matchVars
    /\ UNCHANGED tftpVars

\* a faulty variant: the switch has no default, an unmatched token falls
\* through with err nil
Dispatch_NoDefault ==
    /\ pc = "dispatch"
    /\ IF IndexFault(cursor) # "none"
       THEN /\ fault' = IndexFault(cursor)
            /\ pc' = "panic"
            /\ UNCHANGED <<c, prod, err>>
       ELSE LET k == findPrefix(arg[cursor + 1], whatIWant)
            IN  /\ c' = k
                /\ IF ProductionOf(k) # "none"
                   THEN /\ prod' = ProductionOf(k)
                        /\ pc' = "production"
                        /\ UNCHANGED <<err, fault>>
                   ELSE /\ pc' = "return"
                        /\ UNCHANGED <<prod, fault, err>>
    /\ UNCHANGED <<inet4, inet6, arg, cursor, whatIWant, family, action, cmd, result>>
    /\ UNCHANGED matchVars
    /\ UNCHANGED tftpVars

\* run: c := findPrefix(arg[cursor], whatIWant) and the switch on c
Dispatch ==
    /\ pc = "dispatch"
    /\ IF IndexFault(cursor) # "none"
       THEN /\ fault' = IndexFault(cursor)
            /\ pc' = "panic"
            /\ UNCHANGED <<c, prod, err>>
       ELSE LET k == findPrefix(arg[cursor + 1], whatIWant)
            IN  /\ c' = k
                /\ IF ProductionOf(k) # "none"
                   THEN /\ prod' = ProductionOf(k)
                        /\ pc' = "production"
                        /\ UNCHANGED <<err, fault>>
                   ELSE IF usageFault # "none"
                   THEN /\ fault' = usageFault
                        /\ pc' = "panic"
                        /\ UNCHANGED <<prod, err>>
                   ELSE /\ err' = usage
                        /\ pc' = "return"
                        /\ UNCHANGED <<prod, fault>>
    /\ UNCHANGED <<inet4, inet6, arg, cursor, whatIWant, family, action, cmd, result>>
    /\ UNCHANGED matchVars
    /\ UNCHANGED tftpVars

\* a faulty variant: the deferred function does not recover
Recover_Propagates ==
    /\ pc = "panic"
    /\ pc' = "exited"
    /\ UNCHANGED <<inet4, inet6, arg, cursor, whatIWant, family, c, prod, action, err, cmd, fault, result>>
    /\ UNCHANGED matchVars
    /\ UNCHANGED tftpVars

\* run's deferred function: every panic ends in log.Fatalf
Recover ==
    /\ pc = "panic"
    /\ result' = Recovered(fault)
    /\ fault' = "none"
    /\ pc' = "exited"
    /\ UNCHANGED <<inet4, inet6, arg, cursor, whatIWant, family, c, prod, action, err, cmd>>
    /\ UNCHANGED matchVars
    /\ UNCHANGED tftpVars

\* a faulty variant: the cursor is put back to 0 on the way out
RunReturn_Rewind ==
    /\ pc = "return"
    /\ result' = IF err # Nil THEN Prefixed(c, err) ELSE [kind |-> "ok", cmd |-> cmd]
    /\ pc' = "main"
    /\ c' = NoMatch
    /\ err' = Nil
    /\ prod' = "none"
    /\ action' = NoMatch
    /\ cmd' = NoCmd
    /\ cursor' = 0
    /\ UNCHANGED <<inet4, inet6, arg, whatIWant, family, fault>>
    /\ UNCHANGED matchVars
    /\ UNCHANGED tftpVars

\* run: if err != nil { return Errorf("%v: %v", c, err) }; return nil
RunReturn ==
    /\ pc = "return"
    /\ result' = IF err # Nil THEN Prefixed(c, err) ELSE [kind |-> "ok", cmd |-> cmd]
    /\ pc' = "main"
    /\ c' = NoMatch
    /\ err' = Nil
    /\ prod' = "none"
    /\ action' = NoMatch
    /\ cmd' = NoCmd
    /\ UNCHANGED <<inet4, inet6, arg, cursor, whatIWant, family, fault>>
    /\ UNCHANGED matchVars
    /\ UNCHANGED tftpVars

\* main: if err != nil { log.Fatalf("ip: %v", err) }; otherwise main returns
\* and its err is gone
MainReturn ==
    /\ pc = "main"
    /\ IF result.kind = "error"
       THEN pc' = "exited" /\ UNCHANGED result
       ELSE pc' = "idle" /\ result' = NoResult
    /\ UNCHANGED <<inet4, inet6, arg, cursor, whatIWant, family, c, prod, action, err, cmd, fault>>
    /\ UNCHANGED matchVars
    /\ UNCHANGED tftpVars

---------------------------------------------------------------------------
(* Grammar productions and the execution collaborator *)

\* Address expects {add, delete, show, flush}
AddressSub == <<KwAdd, KwDelete, KwShow, KwFlush>>

\* the sub-keyword set of the other productions
LinkSub == <<KwShow, KwSet, KwAdd, KwDelete>>

\* the expectation set a production installs for its sub-grammar
SubKeywords(p) == IF p = "address" THEN AddressSub ELSE LinkSub

\* the expectation set installed before a leaf value is read
LeafExpect == << <<"v","a","l","u","e">> >>

\* the sub-keywords that require a leaf value after them
NeedsLeaf(a) == a \in {KwAdd, KwDelete, KwSet}

\* the Command a production assembles
Command(p, a, rest) ==
    [kind |-> "cmd", variant |-> p, action |-> a, args |-> rest,
     family |-> family]

\* a production takes control: with the stream exhausted after its keyword
\* it assembles its "show all" Command, otherwise it advances past the
\* keyword and installs its own expectation set
ProdEnter ==
    /\ pc = "production"
    /\ IF Len(arg) = cursor + 1
       THEN /\ cmd' = Command(prod, KwShow, <<>>)
            /\ pc' = "execute"
            /\ UNCHANGED <<cursor, whatIWant>>
       ELSE /\ cursor' = cursor + 1
            /\ whatIWant' = SubKeywords(prod)
            /\ pc' = "sub"
            /\ UNCHANGED cmd
    /\ UNCHANGED <<inet4, inet6, arg, family, c, prod, action, err, fault, result>>
    /\ UNCHANGED matchVars
    /\ UNCHANGED tftpVars

\* the production reads the token at the cursor and resolves it against its
\* expectation set; NoMatch ends in usage()
ProdSub ==
    /\ pc = "sub"
    /\ IF IndexFault(cursor) # "none"
       THEN /\ fault' = IndexFault(cursor)
            /\ pc' = "panic"
            /\ UNCHANGED <<cursor, action, err>>
       ELSE LET a == findPrefix(arg[cursor + 1], whatIWant)
            IN  IF a # NoMatch
                THEN /\ action' = a
                     /\ cursor' = cursor + 1
                     /\ pc' = "leaf"
                     /\ UNCHANGED <<err, fault>>
                ELSE IF usageFault # "none"
                THEN /\ fault' = usageFault
                     /\ pc' = "panic"
                     /\ UNCHANGED <<cursor, action, err>>
                ELSE /\ err' = usage
                     /\ pc' = "return"
                     /\ UNCHANGED <<cursor, action, fault>>
    /\ UNCHANGED <<inet4, inet6, arg, whatIWant, family, c, prod, cmd, result>>
    /\ UNCHANGED matchVars
    /\ UNCHANGED tftpVars

\* the finer production: a sub-keyword that requires a leaf value installs
\* the leaf expectation and reads it; the remaining tokens are leaf values
\* handed on without grammar validation
ProdLeaf ==
    /\ pc = "leaf"
    /\ IF NeedsLeaf(action)
       THEN /\ whatIWant' = LeafExpect
            /\ IF IndexFault(cursor) # "none"
               THEN /\ fault' = IndexFault(cursor)
                    /\ pc' = "panic"
                    /\ UNCHANGED <<cursor, cmd>>
               ELSE /\ cmd' = Command(prod, action, Slice(arg, cursor, Len(arg)))
                    /\ cursor' = cursor + 1
                    /\ pc' = "execute"
                    /\ UNCHANGED fault
       ELSE /\ cmd' = Command(prod, action, Slice(arg, cursor, Len(arg)))
            /\ pc' = "execute"
            /\ UNCHANGED <<cursor, whatIWant, fault>>
    /\ UNCHANGED <<inet4, inet6, arg, family, c, prod, action, err, result>>
    /\ UNCHANGED matchVars
    /\ UNCHANGED tftpVars

ExecErr == [kind |-> "exec"]

\* Execute(Command) -> (output, error): the collaborator succeeds or fails
Execute ==
    /\ pc = "execute"
    /\ \E e \in {Nil, ExecErr} : err' = e
    /\ pc' = "return"
    /\ UNCHANGED <<inet4, inet6, arg, cursor, whatIWant, family, c, prod, action, cmd, fault, result>>
    /\ UNCHANGED matchVars
    /\ UNCHANGED tftpVars

---------------------------------------------------------------------------
(* Inputs *)

\* every prefix of a sequence, the empty one and the whole included
Prefixes(k) == {SubSeq(k, 1, n) : n \in 0..Len(k)}

\* first tokens: every prefix of every top-level keyword, and tokens that
\* are no prefix of any
FirstTokens ==
    UNION {Prefixes(k) : k \in {KwAddress, KwRoute, KwLink, KwMonitor, KwNeigh,
                                KwTunnel, KwTcpUMetrics, KwTcpMetrics, KwXfrm}}
      \cup {<<"x","y","z">>, <<"L","i","n","k">>, <<"l","i","n","k","s">>}

\* the first tokens of the longer command lines: keywords spelled out and
\* abbreviated, an ambiguous prefix and a stranger
HeadTokens ==
    {KwLink, <<"l">>, <<"a">>, <<"a","d","d","r">>, <<"t","c","p","_">>,
     <<"t","c","p">>, <<"x","y","z">>}

\* second tokens: sub-keywords spelled out and abbreviated, and a stranger
SubTokens ==
    {<<"s","h">>, <<"s">>, KwAdd, <<"d">>, <<"x","y","z">>}

\* leaf values
LeafTokens == {<<"e","t","h","0">>, <<"x","y","z">>}

RECURSIVE Tails(_)
\* the token lists of length n that may follow a first token
Tails(n) ==
    IF n = 0 THEN {<<>>}
    ELSE IF n = 1 THEN {<<t>> : t \in SubTokens}
    ELSE {Append(r, t) : r \in Tails(n - 1), t \in LeafTokens}

\* the command lines tried
ArgLists ==
    {<<>>} \cup {<<t>> : t \in FirstTokens} \cup
    {<<t>> \o r : t \in HeadTokens, r \in UNION {Tails(n) : n \in 1..(MaxArgs - 1)}}

\* the flag lists tried
FlagLists == {<<>>, <<"-4">>, <<"-6">>, <<"-4", "-6">>, <<"-6", "-4">>}

\* strings for the matcher alone: some are prefixes of others
ProbeStrings ==
    {<<>>, <<"a">>, <<"a","b">>, <<"a","c">>, <<"b">>}

RECURSIVE ProbeLists(_)
ProbeLists(n) ==
    IF n = 0 THEN {<<>>}
    ELSE ProbeLists(n - 1)
           \cup {Append(l, k) : l \in {x \in ProbeLists(n - 1) : Len(x) = n - 1},
                                k \in ProbeStrings}

---------------------------------------------------------------------------
(* Specifications *)

\* the clientCfg before RunInteractive has built one
NoCfg ==
    [host |-> <<>>, port |-> "", client |-> "nil", mode |-> "", rexmt |-> 0,
     timeout |-> 0, trace |-> FALSE, literal |-> FALSE, verbose |-> FALSE]

\* the tftp client is not running
TftpOff ==
    /\ tpc = "off"
    /\ stdin = <<>>
    /\ eof = FALSE
    /\ input = <<>>
    /\ cfg = NoCfg
    /\ tfault = "none"
    /\ puts = <<>>
    /\ terr = "none"

\* the process as it starts: Go's zero values
Init ==
    /\ inet4 = FALSE
    /\ inet6 = FALSE
    /\ arg = <<>>
    /\ cursor = 0
    /\ whatIWant = <<>>
    /\ family = "ALL"
    /\ pc = "idle"
    /\ c = NoMatch
    /\ prod = "none"
    /\ action = NoMatch
    /\ err = Nil
    /\ cmd = NoCmd
    /\ fault = "none"
    /\ result = NoResult
    /\ mtoken = <<>>
    /\ mcands = <<>>
    /\ mresult = NoMatch
    /\ TftpOff

Next ==
    \/ \E flags \in FlagLists, args \in ArgLists : Main(flags, args)
    \/ RunInit
    \/ Dispatch
    \/ Recover
    \/ ProdEnter
    \/ ProdSub
    \/ ProdLeaf
    \/ Execute
    \/ RunReturn
    \/ MainReturn

Spec == Init /\ [][Next]_vars

\* the steps of one call of run and of main's handling of what it returns
ParseStep ==
    \/ RunInit
    \/ Dispatch
    \/ Recover
    \/ ProdEnter
    \/ ProdSub
    \/ ProdLeaf
    \/ Execute
    \/ RunReturn
    \/ MainReturn

\* the program is synchronous and single-threaded: a call that has started
\* goes on until it returns or the process exits
FairSpec == Spec /\ WF_vars(ParseStep)

\* the matcher applied to a token and a candidate list
ApplyMatch ==
    /\ pc = "match"
    /\ mresult' = findPrefix(mtoken, mcands)
    /\ pc' = "matched"
    /\ UNCHANGED <<mtoken, mcands>>
    /\ UNCHANGED runVars
    /\ UNCHANGED tftpVars

InitMatch ==
    /\ inet4 = FALSE
    /\ inet6 = FALSE
    /\ arg = <<>>
    /\ cursor = 0
    /\ whatIWant = <<>>
    /\ family = "ALL"
    /\ pc = "match"
    /\ c = NoMatch
    /\ prod = "none"
    /\ action = NoMatch
    /\ err = Nil
    /\ cmd = NoCmd
    /\ fault = "none"
    /\ result = NoResult
    /\ mtoken \in ProbeStrings
    /\ mcands \in ProbeLists(MaxCands)
    /\ mresult = NoMatch
    /\ TftpOff

\* the program, and beside it the matcher applied alone
SpecMatch == (Init \/ InitMatch) /\ [][Next \/ ApplyMatch]_vars

---------------------------------------------------------------------------
(* tftp: RunInteractive, executeOp, executePut *)

\* most lines on the input stream
MaxLines == 2

\* most file names given to put
MaxFiles == 4

\* tftp.ModeNetASCII and tftp.ModeOctet
ModeNetASCII == "netascii"

ModeOctet == "octet"

\* validateMode(mode): the zero TransferMode and the error for any other word
validateMode(m) ==
    IF m = "ascii" THEN [mode |-> ModeNetASCII, err |-> "none"]
    ELSE IF m = "binary" THEN [mode |-> ModeOctet, err |-> "none"]
    ELSE [mode |-> "", err |-> "invalid transfer mode"]

\* strconv.Atoi on the words tried: the value, or 0 and an error
Atoi(w) ==
    IF w = "0" THEN [val |-> 0, err |-> "none"]
    ELSE IF w = "5" THEN [val |-> 5, err |-> "none"]
    ELSE [val |-> 0, err |-> "invalid syntax"]

\* constructURL(host, port, dir, file): tftp://host:port/[dir/]file
constructURL(host, port, dir, file) ==
    [host |-> host, port |-> port,
     path |-> IF dir # "" THEN <<dir, file>> ELSE <<file>>]

\* what one call can end with
Outcome(ex, f, cf, p, e) ==
    [exit |-> ex, fault |-> f, cfg |-> cf, puts |-> p, err |-> e]

\* executePut(client, host, port, files): the uploads made, in order; opening
\* a file or the upload itself may fail, which ends the call
executePut(host, port, files) ==
    LET n == Len(files)
        localfiles == IF n = 1 THEN files
                      ELSE IF n = 2 THEN <<files[1]>>
                      ELSE SubSeq(files, 1, n - 2)
        remotefile == IF n = 2 THEN files[2] ELSE ""
        remotedir == IF n \notin {1, 2} THEN files[n] ELSE ""
        url(file) == IF Len(localfiles) = 1 /\ remotefile # ""
                     THEN constructURL(host, port, "", remotefile)
                     ELSE IF Len(localfiles) > 1
                     THEN constructURL(host, port, remotedir, file)
                     ELSE constructURL(host, port, "", file)
        all == [i \in 1..Len(localfiles) |->
                   [url |-> url(localfiles[i]), file |-> localfiles[i]]]
    IN  IF n \notin {1, 2} /\ n - 2 < 0
        THEN {[fault |-> "slice bounds out of range", puts |-> <<>>, err |-> "none"]}
        ELSE {[fault |-> "none", puts |-> SubSeq(all, 1, k),
               err |-> IF k < Len(localfiles) THEN "io" ELSE "none"]
                 : k \in 0..Len(localfiles)}

\* executeOp(input, clientcfg, stdout): every way the call can end
executeOp(in, cf) ==
    LET op == in[1]
        same == {Outcome(FALSE, "none", cf, <<>>, "none")}
        noClient == Outcome(FALSE, "none", [cf EXCEPT !.client = "nil"], <<>>,
                            "new client")
        withClient == [cf EXCEPT !.client = "client"]
        indexFault == {Outcome(FALSE, "index out of range", cf, <<>>, "none")}
    IN  CASE op \in {"q", "quit"} -> {Outcome(TRUE, "none", cf, <<>>, "none")}
          [] op \in {"h", "help", "?"} -> same
          [] op = "ascii" ->
               {Outcome(FALSE, "none",
                        [cf EXCEPT !.mode = validateMode("ascii").mode], <<>>, "none")}
          [] op = "binary" ->
               {Outcome(FALSE, "none",
                        [cf EXCEPT !.mode = validateMode("binary").mode], <<>>, "none")}
          [] op = "mode" ->
               IF Len(in) > 1
               THEN {Outcome(FALSE, "none",
                             [cf EXCEPT !.mode = validateMode(in[2]).mode], <<>>,
                             validateMode(in[2]).err)}
               ELSE same
          [] op = "get" ->
               {noClient} \cup
               {Outcome(FALSE, "none", withClient, <<>>, e) : e \in {"none", "io"}}
          [] op = "put" ->
               {noClient} \cup
               {Outcome(FALSE, r.fault, withClient, r.puts, r.err)
                  : r \in executePut(cf.host, cf.port, Tail(in))}
          [] op = "connect" ->
               IF Len(in) < 2 THEN indexFault
               ELSE {Outcome(FALSE, "none",
                             [cf EXCEPT !.port = IF Len(in) > 2 THEN in[3] ELSE @,
                                        !.host = <<in[2]>>], <<>>, "none")}
          [] op = "literal" ->
               {Outcome(FALSE, "none", [cf EXCEPT !.literal = ~@], <<>>, "none")}
          [] op = "rexmt" ->
               IF Len(in) < 2 THEN indexFault
               ELSE {Outcome(FALSE, "none", [cf EXCEPT !.rexmt = Atoi(in[2]).val],
                             <<>>, Atoi(in[2]).err)}
          [] op = "status" -> same
          [] op = "timeout" ->
               IF Len(in) < 2 THEN indexFault
               ELSE {Outcome(FALSE, "none", [cf EXCEPT !.timeout = Atoi(in[2]).val],
                             <<>>, Atoi(in[2]).err)}
          [] op = "trace" ->
               {Outcome(FALSE, "none", [cf EXCEPT !.trace = ~@], <<>>, "none")}
          [] op = "verbose" ->
               {Outcome(FALSE, "none", [cf EXCEPT !.verbose = ~@], <<>>, "none")}
          [] OTHER -> same

\* RunInteractive up to its loop: the host from ipPort, or from a line of the
\* input when ipPort is empty, and the first clientCfg
RunInteractive(ipPort, lit) ==
    /\ tpc = "start"
    /\ LET ask == Len(ipPort) = 0
           host == IF ~ask THEN <<ipPort[1]>>
                   ELSE IF stdin = <<>> THEN <<"">> ELSE Head(stdin)
           port == IF ask THEN "" ELSE IF Len(ipPort) > 1 THEN ipPort[2] ELSE "69"
       IN  /\ cfg' = [host |-> host, port |-> port, client |-> "nil",
                      mode |-> ModeNetASCII, rexmt |-> 10, timeout |-> 1,
                      trace |-> FALSE, literal |-> lit, verbose |-> FALSE]
           /\ stdin' = IF ask /\ stdin # <<>> THEN Tail(stdin) ELSE stdin
           /\ eof' = (ask /\ stdin = <<>>)
    /\ tpc' = "read"
    /\ UNCHANGED <<input, tfault, puts, terr>>
    /\ UNCHANGED <<pc, runVars, matchVars>>

\* readInputInteractive: Scan's answer is not looked at; on an exhausted
\* stream Text() is empty and Split gives one empty word
readInputInteractive ==
    /\ tpc = "read"
    /\ IF stdin = <<>>
       THEN eof' = TRUE /\ input' = <<"">> /\ UNCHANGED stdin
       ELSE eof' = FALSE /\ input' = Head(stdin) /\ stdin' = Tail(stdin)
    /\ tpc' = "exec"
    /\ UNCHANGED <<cfg, tfault, puts, terr>>
    /\ UNCHANGED <<pc, runVars, matchVars>>

\* the body of RunInteractive's loop after the read: executeOp, the error
\* printed, the return on exit
LoopBody ==
    /\ tpc = "exec"
    /\ \E o \in executeOp(input, cfg) :
          /\ cfg' = o.cfg
          /\ puts' = o.puts
          /\ terr' = o.err
          /\ tfault' = o.fault
          /\ tpc' = IF o.fault # "none" THEN "crashed"
                    ELSE IF o.exit THEN "returned" ELSE "read"
    /\ UNCHANGED <<stdin, eof, input>>
    /\ UNCHANGED <<pc, runVars, matchVars>>

\* the file names put may be given
FileNames == <<"f1", "f2", "f3", "f4", "f5", "f6">>

\* the input lines tried, each as its words
Lines ==
    {<<"q">>, <<"quit">>, <<"">>, <<"status">>, <<"help">>, <<"ascii">>,
     <<"binary">>, <<"mode">>, <<"mode", "ascii">>, <<"mode", "binary">>,
     <<"mode", "foo">>, <<"connect">>, <<"connect", "h2">>,
     <<"connect", "h2", "70">>, <<"rexmt">>, <<"rexmt", "5">>,
     <<"rexmt", "abc">>, <<"timeout">>, <<"timeout", "5">>,
     <<"timeout", "abc">>, <<"literal">>, <<"trace">>, <<"verbose">>,
     <<"get", "f1">>}
      \cup {<<"put">> \o SubSeq(FileNames, 1, n) : n \in 0..MaxFiles}

RECURSIVE Streams(_)
\* the input streams of at most n lines
Streams(n) ==
    IF n = 0 THEN {<<>>}
    ELSE Streams(n - 1)
           \cup {<<l>> \o r : l \in Lines, r \in {x \in Streams(n - 1) : Len(x) = n - 1}}

\* RunInteractive is called on some input stream
InitTftp ==
    /\ inet4 = FALSE
    /\ inet6 = FALSE
    /\ arg = <<>>
    /\ cursor = 0
    /\ whatIWant = <<>>
    /\ family = "ALL"
    /\ pc = "tftp"
    /\ c = NoMatch
    /\ prod = "none"
    /\ action = NoMatch
    /\ err = Nil
    /\ cmd = NoCmd
    /\ fault = "none"
    /\ result = NoResult
    /\ mtoken = <<>>
    /\ mcands = <<>>
    /\ mresult = NoMatch
    /\ tpc = "start"
    /\ stdin \in Streams(MaxLines)
    /\ eof = FALSE
    /\ input = <<>>
    /\ cfg = NoCfg
    /\ tfault = "none"
    /\ puts = <<>>
    /\ terr = "none"

NextTftp ==
    \/ \E ipPort \in {<<>>, <<"h">>, <<"h", "p">>}, lit \in BOOLEAN :
          RunInteractive(ipPort, lit)
    \/ readInputInteractive
    \/ LoopBody

SpecTftp == InitTftp /\ [][NextTftp]_vars

---------------------------------------------------------------------------
(* Properties *)

\* the top-level keywords, as a set
Keywords ==
    {KwAddress, KwRoute, KwLink, KwMonitor, KwNeigh, KwTunnel,
     KwTcpUMetrics, KwTcpMetrics, KwXfrm}

\* the production each top-level keyword is bound to
Bound(k) ==
    CASE k = KwAddress -> "address"
      [] k = KwRoute -> "route"
      [] k = KwLink -> "link"
      [] k = KwMonitor -> "monitor"
      [] k = KwNeigh -> "neigh"
      [] k = KwTunnel -> "tunnel"
      [] k = KwTcpUMetrics -> "tcpMetrics"
      [] k = KwTcpMetrics -> "tcpMetrics"
      [] k = KwXfrm -> "xfrm"

\* the top-level keywords a token is a prefix of
TopHits(t) == {k \in Keywords : HasPrefix(k, t)}

\* the dispatch of the present invocation is over and run has not returned
Dispatched == pc \in {"production", "sub", "leaf", "execute", "return", "panic"}

\* the usage error of a token refused at the top level
TopUsage ==
    [kind |-> "usage", consumed |-> <<>>, remaining |-> arg,
     offending |-> arg[1], expected |-> TopLevel]

\* C1: a token that is one of the candidates is the matcher's answer, also
\* when it is a proper prefix of other candidates; and a first token that is
\* a top-level keyword dispatches to the production bound to that keyword.
C1_ExactMatchWins ==
    /\ (pc = "matched" /\ mtoken \in Range(mcands)) => mresult = mtoken
    /\ (Dispatched /\ Len(arg) >= 1 /\ arg[1] \in Keywords)
          => (c = arg[1] /\ prod = Bound(arg[1]))

\* C1 witness: the matcher has answered a token that is a candidate and a
\* proper prefix of another candidate.
C1_Witness ==
    /\ pc = "matched"
    /\ mtoken = <<"a">>
    /\ <<"a">> \in Range(mcands)
    /\ <<"a","b">> \in Range(mcands)
    /\ mresult = <<"a">>

\* C2: a first token that is a prefix of two or more top-level keywords and
\* equal to none enters no production: the matcher answers NoMatch and run
\* ends with the usage error of an unrecognized token.
C2_AmbiguousIsNoMatch ==
    (/\ pc \notin {"idle", "run", "dispatch", "match", "matched"}
     /\ Len(arg) >= 1
     /\ arg[1] \notin Keywords
     /\ Cardinality(TopHits(arg[1])) >= 2)
       => /\ prod = "none"
          /\ cmd = NoCmd
          /\ pc \in {"return", "main", "exited"}
          /\ pc = "return" => (c = NoMatch /\ err = TopUsage)
          /\ pc \in {"main", "exited"} =>
                result = [kind |-> "error", prefix |-> NoMatch, err |-> TopUsage]

\* C2 witness: tcp, a prefix of tcp_metrics and tcpmetrics alone, was refused.
C2_Witness ==
    /\ pc = "exited"
    /\ arg = << <<"t","c","p">> >>
    /\ result.kind = "error"
    /\ result.err.kind = "usage"

\* C3: a non-empty first token that is a prefix of exactly one top-level
\* keyword dispatches to the production bound to that keyword, whatever the
\* length of the prefix.
C3_UniquePrefixDispatches ==
    (/\ Dispatched
     /\ Len(arg) >= 1
     /\ arg[1] # <<>>
     /\ Cardinality(TopHits(arg[1])) = 1)
       => \A k \in TopHits(arg[1]) : c = k /\ prod = Bound(k)

\* C3 witness: the one-character prefix m has reached monitor.
C3_Witness ==
    /\ pc = "production"
    /\ arg = << <<"m">> >>
    /\ prod = "monitor"

\* C4: with no tokens run ends in the diagnostic of the deferred function,
\* which names the whole top-level keyword set as expected and cursor 0, and
\* no production is entered.
C4_EmptyArgs ==
    (arg = <<>> /\ pc \notin {"idle", "run", "dispatch", "match", "matched"})
       => /\ pc \in {"panic", "exited"}
          /\ prod = "none"
          /\ pc = "exited" =>
                result = [kind |-> "fatal", args |-> <<>>, cursor |-> 0,
                          expected |-> <<KwAddress, KwRoute, KwLink, KwMonitor,
                                         KwNeigh, KwTunnel, KwTcpUMetrics,
                                         KwTcpMetrics, KwXfrm>>]

\* C4 witness: an invocation with no tokens has ended.
C4_Witness ==
    /\ pc = "exited"
    /\ arg = <<>>
    /\ result.kind = "fatal"

\* C5: a read outside the token list, wherever it happens, is turned by the
\* deferred function of run into a diagnostic: a fault is in flight only
\* inside run, and the process is never left with a fault and no diagnostic.
C5_NoFaultEscapes ==
    /\ fault # "none" => pc = "panic"
    /\ pc = "exited" =>
          /\ fault = "none"
          /\ result.kind \in {"fatal", "error"}
          /\ result.kind = "fatal" => result.cursor >= Len(result.args)

\* C5 witness: a read outside the list inside a nested production has ended
\* in the diagnostic.
C5_Witness ==
    /\ pc = "exited"
    /\ result.kind = "fatal"
    /\ prod = "address"
    /\ action = KwAdd
    /\ result.cursor = 2

\* C6: a usage error raised at cursor k holds the first k tokens as consumed,
\* the tokens from k on as remaining, the token at k as offending and the
\* expectation set of the production in control (the top-level set when none
\* is); consumed followed by remaining is the token list. link xyz gives
\* consumed = [link], remaining = [xyz], expected = Link's sub-keyword set.
C6_UsageDiagnostic ==
    (pc = "return" /\ err.kind = "usage")
       => /\ cursor < Len(arg)
          /\ err.consumed = SubSeq(arg, 1, cursor)
          /\ err.remaining = SubSeq(arg, cursor + 1, Len(arg))
          /\ err.offending = arg[cursor + 1]
          /\ err.consumed \o err.remaining = arg
          /\ prod = "none" => (cursor = 0 /\ err.expected = TopLevel)
          /\ prod # "none" => (cursor = 1 /\ err.expected = SubKeywords(prod))
          /\ arg = <<KwLink, <<"x","y","z">> >> =>
                /\ err.consumed = <<KwLink>>
                /\ err.remaining = << <<"x","y","z">> >>
                /\ err.expected = LinkSub

\* C6 witness: link xyz has been refused by Link.
C6_Witness ==
    /\ pc = "return"
    /\ arg = <<KwLink, <<"x","y","z">> >>
    /\ prod = "link"
    /\ err.kind = "usage"
    /\ err.offending = <<"x","y","z">>

\* C7: when the token list runs out under a production (or under the
\* dispatcher) the diagnostic names as consumed exactly the tokens read, which
\* are all of them, and the expectation set in effect at the failing read.
C7_EndOfInput ==
    (pc = "exited" /\ result.kind = "fatal")
       => /\ result.args = arg
          /\ result.cursor = Len(arg)
          /\ Slice(result.args, 0, result.cursor) = arg
          /\ result.expected = whatIWant
          /\ result.expected = IF prod = "none" THEN TopLevel ELSE LeafExpect

\* C7 witness: a add ran out where the value of add was required.
C7_Witness ==
    /\ pc = "exited"
    /\ result.kind = "fatal"
    /\ arg = << <<"a">>, KwAdd >>
    /\ result.expected = LeafExpect

C9_FreshStart ==
    [][pc = "run" =>
          /\ pc' = "dispatch"
          /\ cursor' = 0
          /\ whatIWant' = TopLevel
          /\ family' = (IF inet6' THEN "V6" ELSE IF inet4' THEN "V4" ELSE "ALL")
          /\ err' = Nil /\ c' = NoMatch /\ prod' = "none" /\ cmd' = NoCmd
          /\ fault' = "none" /\ result' = NoResult]_vars

\* C9 witness: an invocation is about to start with the cursor, expectation
\* set and family of the invocation before it.
C9_Witness ==
    /\ pc = "run"
    /\ cursor = 3
    /\ whatIWant = LeafExpect
    /\ family = "V6"
    /\ ~inet6

\* C10: the error run returns is the keyword the matcher resolved followed by
\* the error of the production, unmodified; when no production ran the
\* keyword is empty.
C10_ErrorPrefix ==
    [][(pc = "return" /\ err # Nil) =>
          /\ result'.kind = "error"
          /\ result'.err = err
          /\ prod = "none" => result'.prefix = NoMatch
          /\ prod # "none" =>
                /\ result'.prefix \in Keywords
                /\ Bound(result'.prefix) = prod
                /\ HasPrefix(result'.prefix, arg[1])]_vars

\* C10 witness: the execution error of the command a stands under address.
C10_Witness ==
    /\ pc = "exited"
    /\ arg = << <<"a">> >>
    /\ result.kind = "error"
    /\ result.prefix = KwAddress
    /\ result.err = ExecErr

\* the "show all" Command of production p
ShowAll(p) ==
    [kind |-> "cmd", variant |-> p, action |-> KwShow, args |-> <<>>,
     family |-> family]

KeywordOf(p) ==
    CASE p = "address" -> KwAddress
      [] p = "route" -> KwRoute
      [] p = "link" -> KwLink
      [] p = "monitor" -> KwMonitor
      [] p = "neigh" -> KwNeigh
      [] p = "tunnel" -> KwTunnel
      [] p = "tcpMetrics" -> KwTcpUMetrics
      [] p = "xfrm" -> KwXfrm

\* a Command written back as its fully-spelled token list
Spell(k) == <<KeywordOf(k.variant), k.action>> \o k.args

\* the Command a parse of the token list args under family fam ends with,
\* NoCmd when the parse fails: run and the productions as one function
ParseCmd(args, fam) ==
    IF args = <<>> THEN NoCmd
    ELSE LET p == ProductionOf(findPrefix(args[1], TopLevel))
         IN  IF p = "none" THEN NoCmd
             ELSE IF Len(args) = 1
             THEN [kind |-> "cmd", variant |-> p, action |-> KwShow,
                   args |-> <<>>, family |-> fam]
             ELSE LET a == findPrefix(args[2], SubKeywords(p))
                  IN  IF a = NoMatch \/ (NeedsLeaf(a) /\ Len(args) < 3)
                      THEN NoCmd
                      ELSE [kind |-> "cmd", variant |-> p, action |-> a,
                            args |-> SubSeq(args, 3, Len(args)),
                            family |-> fam]

\* C12: the Command of a successful parse, written back as its fully-spelled
\* token list and parsed again under the same flags, is the same Command.
C12_RoundTrip ==
    (pc = "main" /\ result.kind = "ok")
       => /\ result.cmd = ParseCmd(arg, family)
          /\ ParseCmd(Spell(result.cmd), family) = result.cmd

\* C12 witness: the abbreviated a sh eth0 has parsed to address show eth0.
C12_Witness ==
    /\ pc = "main"
    /\ result.kind = "ok"
    /\ arg = << <<"a">>, <<"s","h">>, <<"e","t","h","0">> >>
    /\ Spell(result.cmd) = <<KwAddress, KwShow, <<"e","t","h","0">> >>

\* C13: after the reset at the start of run no step of the dispatcher or of
\* a production lowers the cursor.
C13_CursorMonotone ==
    [][pc # "run" => cursor' >= cursor]_vars

\* C13 witness: a parse has moved the cursor from 0 to 3.
C13_Witness ==
    /\ pc = "execute"
    /\ cursor = 3
    /\ Len(arg) = 3

\* C14 as stated: the production starts with the cursor already past the
\* keyword, at 1.
C14_ProductionStartsAtOne ==
    pc = "production" => cursor = 1

\* C14, amended: the top-level expectation set is installed before the first
\* token is read and matched; on a match control passes to the bound
\* production with the cursor still at 0, run never advancing it; on NoMatch
\* the cursor stays at 0.
C14_DispatchOrder ==
    /\ pc = "dispatch" => (whatIWant = TopLevel /\ cursor = 0 /\ c = NoMatch)
    /\ pc = "production" =>
          /\ cursor = 0
          /\ whatIWant = TopLevel
          /\ c \in Keywords
          /\ HasPrefix(c, arg[1])
          /\ prod = Bound(c)
    /\ (pc = "return" /\ prod = "none") => (cursor = 0 /\ c = NoMatch)

\* C14 witness: Link has control of link xyz and the cursor is at 0.
C14_Witness ==
    /\ pc = "production"
    /\ prod = "link"
    /\ arg = <<KwLink, <<"x","y","z">> >>
    /\ cursor = 0

\* the parse has ended with a Command
Done == pc = "main" /\ result.kind = "ok"

\* the parse has ended with a diagnostic or an error
Failed == pc = "exited" \/ (pc = "main" /\ result.kind = "error")

\* C15: every parse ends, in Done or in Failed; after that no step of the
\* parser follows; Done is entered only from a production, never from the
\* dispatcher, and with one Command of one variant.
C15_Terminates ==
    /\ (pc = "run") ~> (Done \/ Failed)
    /\ [][(Done \/ Failed) =>
             /\ pc' \in {"idle", "exited"}
             /\ UNCHANGED <<arg, cursor, whatIWant, family, c, prod, action,
                            err, cmd, fault>>]_vars
    /\ [][(~Done /\ Done') => (pc = "return" /\ prod # "none" /\ cmd # NoCmd)]_vars
    /\ [](Done => (/\ result.cmd.kind = "cmd"
                   /\ result.cmd.variant \in {"address", "link", "route", "neigh",
                                              "monitor", "tunnel", "tcpMetrics",
                                              "xfrm"}))

\* C15 witness: a parse of tcp_ has ended in Done with a TCPMetrics Command.
C15_Witness ==
    /\ Done
    /\ arg = << <<"t","c","p","_">> >>
    /\ result.cmd.variant = "tcpMetrics"

\* C16: wherever a token is about to be read, the expectation set is not
\* empty and is the one of the position read: the top-level set at the
\* dispatch, the production's own set at its sub-keyword; a read that failed
\* reports the set of its own position.
C16_ExpectationBeforeRead ==
    /\ pc = "dispatch" => (whatIWant = TopLevel /\ whatIWant # <<>>)
    /\ pc = "sub" => (whatIWant = SubKeywords(prod) /\ whatIWant # <<>>)
    /\ pc = "panic" =>
          /\ whatIWant # <<>>
          /\ whatIWant = IF cursor = 0 THEN TopLevel ELSE LeafExpect
    /\ (pc = "return" /\ err.kind = "usage") =>
          /\ err.expected # <<>>
          /\ err.expected = IF cursor = 0 THEN TopLevel ELSE SubKeywords(prod)

\* C16 witness: Address is about to read its sub-keyword with its own set
\* installed.
C16_Witness ==
    /\ pc = "sub"
    /\ prod = "address"
    /\ cursor = 1
    /\ whatIWant = AddressSub

\* C17: RunInteractive ends on every finite input stream: it returns on q or
\* quit, and once the stream is exhausted it returns instead of executing
\* what an empty read gave; nothing else makes it return.
C17_ReturnsAtEndOfInput ==
    /\ tpc = "exec" => ~eof
    /\ tpc = "returned" => (eof \/ input[1] \in {"q", "quit"})

\* C18: executeOp ends every call with (exit, error) and never with a read
\* outside the word list, whatever the line and the configuration.
C18_NoFault ==
    tfault = "none" /\ tpc # "crashed"

\* C19: a command with an invalid argument leaves the configuration as it
\* was: mode with a word other than ascii or binary reports the invalid
\* transfer mode and keeps the mode, rexmt and timeout with a word that is no
\* number keep their setting; ascii, binary, mode ascii and mode binary change
\* the mode field alone.
C19_InvalidKeepsConfig ==
    [][tpc = "exec" =>
          /\ (input[1] = "mode" /\ Len(input) > 1
                /\ input[2] \notin {"ascii", "binary"})
                => (cfg' = cfg /\ terr' = "invalid transfer mode")
          /\ (input[1] \in {"rexmt", "timeout"} /\ Len(input) > 1
                /\ Atoi(input[2]).err # "none")
                => cfg' = cfg
          /\ (input \in {<<"ascii">>, <<"binary">>, <<"mode", "ascii">>,
                         <<"mode", "binary">>})
                => /\ [cfg' EXCEPT !.mode = cfg.mode] = cfg
                   /\ cfg'.mode = IF input[Len(input)] = "ascii"
                                  THEN "netascii" ELSE "octet"]_vars

\* C20: put with three or more names uploads every name but the last into the
\* directory the last one names, each once and in order; with one name it
\* uploads the file under its own name, with two the first under the second.
C20_PutUploadsAllButLast ==
    (/\ tpc = "read"
     /\ Len(input) >= 2
     /\ input[1] = "put"
     /\ cfg.client = "client"
     /\ terr = "none")
       => LET files == Tail(input)
              n == Len(files)
          IN  /\ n = 1 =>
                    puts = <<[url |-> [host |-> cfg.host, port |-> cfg.port,
                                       path |-> <<files[1]>>],
                              file |-> files[1]]>>
              /\ n = 2 =>
                    puts = <<[url |-> [host |-> cfg.host, port |-> cfg.port,
                                       path |-> <<files[2]>>],
                              file |-> files[1]]>>
              /\ n >= 3 =>
                    /\ Len(puts) = n - 1
                    /\ \A i \in 1..(n - 1) :
                          puts[i] = [url |-> [host |-> cfg.host, port |-> cfg.port,
                                              path |-> <<files[n], files[i]>>],
                                     file |-> files[i]]

====
